---- MODULE Spec2Model ----
(***************************************************************************)
(* Model of the synchronisation core of 2048mail:                          *)
(*   - tools/web_feedback.py: the per-user feedback rendezvous             *)
(*     (get_yes_no_feedback, provide_feedback, UserFeedbackState),         *)
(*   - devserver/services/feedback_service.py: FeedbackService,            *)
(*   - devserver/websockets/connection_manager.py: ConnectionManager,      *)
(*   - devserver/api/websocket_router.py: the /ws handler,                 *)
(*   - devserver/api/email_router.py, services/email_service.py: the       *)
(*     /process-emails and /status handlers and the processing threads,    *)
(*   - tools/check_email.py: get_last_n_emails.                            *)
(*                                                                         *)
(* Threads.  get_yes_no_feedback runs on worker threads.  provide_feedback *)
(* and the /ws handler run on the one asyncio event loop of the server,    *)
(* so they are serialised with each other, but not with the workers.       *)
(* Every send_to_user started by web_feedback.py runs on a thread of its   *)
(* own (threading.Thread(target=...).start()).  No lock is taken anywhere, *)
(* so one action below is one statement group that touches shared state.   *)
(***************************************************************************)
EXTENDS Integers, Sequences, FiniteSets, TLC

\* ------------------------------------------------------------ bounds
NUsers == 2
NConns == 2
MaxSends == 1
MaxDrafts == 2
MaxQueue == 2
MaxList == 3
NThreads == 2
NMsgs == 3
MaxN == 2
MaxItems == 6
MaxPage == 2
MaxTasks == 2
MaxVersions == 2
MaxAsks == 2
MaxMalformed == 1

Users == 1..NUsers
Conns == 1..NConns
Workers == {"w1", "w2"}

None == "None"
NoUser == 0

\* The (prompt, decision, context) each worker thread asks about.
RequestOf ==
  [w \in Workers |->
     IF w = "w1"
     THEN [prompt |-> "p1", decision |-> "respond", context |-> "ctx"]
     ELSE [prompt |-> "p2", decision |-> "decline", context |-> None]]
NoRequest == [prompt |-> None, decision |-> None, context |-> None]

\* The return value of the timeout and of every early return.
DefaultOutcome == [ok |-> TRUE, raw |-> "correct"]

VARIABLES
  user_connections,      \* ConnectionManager.user_connections: user -> list
  connection_to_user,    \* ConnectionManager.connection_to_user
  user_feedback_states,  \* web_feedback._user_feedback_states
  current_user_id,       \* web_feedback._current_user_id
  wk,                    \* the worker threads inside get_yes_no_feedback
  ev,                    \* the event loop thread (handlers of the server)
  sends,                 \* the running send_to_user calls
  mail,                  \* the locals of a get_last_n_emails call
  task,                  \* the task states, the processing threads, /status
  ws                     \* the /ws handlers that ended, the last error reply

regVars == <<user_connections, connection_to_user>>
fbVars == <<user_feedback_states, current_user_id>>
serverVars == <<user_connections, connection_to_user, user_feedback_states,
                current_user_id, wk, ev, sends>>
vars == <<user_connections, connection_to_user, user_feedback_states,
          current_user_id, wk, ev, sends, mail, task, ws>>

\* ------------------------------------------------------------ helpers
EmptyMap == [x \in {} |-> None]

MapPut(f, k, v) == [x \in (DOMAIN f) \cup {k} |-> IF x = k THEN v ELSE f[x]]

MapDel(f, k) == [x \in (DOMAIN f) \ {k} |-> f[x]]

\* list.remove(x): removes the first occurrence.
RECURSIVE ListRemove(_, _)
ListRemove(l, x) ==
  IF l = <<>> THEN <<>>
  ELSE IF Head(l) = x THEN Tail(l)
  ELSE <<Head(l)>> \o ListRemove(Tail(l), x)

ListElems(l) == { l[i] : i \in 1..Len(l) }

\* UserFeedbackState.__init__
NewUserFeedbackState ==
  [feedback_queue |-> <<>>,
   waiting_for_feedback |-> FALSE,
   current_prompt |-> None,
   current_decision |-> None,
   current_context |-> None]

\* get_user_state: get or create.
GetUserState(states, u) ==
  IF u \in DOMAIN states THEN states ELSE MapPut(states, u, NewUserFeedbackState)

\* A worker thread: its place in get_yes_no_feedback (pc), the user the
\* request is made for (ruid), the local user_id (uid), the dequeued
\* feedback_result (item) and the returned tuple (ret).  History, not read by
\* the code: fast is the value of the first answer that passed the waiting
\* test of provide_feedback while this request was blocked in get() with
\* nothing queued, dup says that a second answer passed it before the first
\* was consumed, quiet that no provide_feedback call ran at any time since
\* the request was called, busy that the user was already
\* waiting for feedback when the call was made.
IdleWorker ==
  [pc |-> "idle", ruid |-> NoUser, uid |-> NoUser, item |-> <<>>, ret |-> <<>>,
   fast |-> <<>>, dup |-> FALSE, quiet |-> TRUE, busy |-> FALSE]

\* The event loop thread: its place in FeedbackService.provide_feedback (pc),
\* the user id and value received (arg, val), the local user_id of
\* provide_feedback (uid) and its result (ret).  History: old says that the
\* answer passed the waiting test before the request now pending began, late
\* that the call was made when the request of the user had already timed out.
IdleLoop ==
  [pc |-> "idle", arg |-> NoUser, uid |-> NoUser, val |-> FALSE,
   ret |-> <<>>, old |-> FALSE, late |-> FALSE]

\* A worker between line 204 (waiting set) and the end of reset().
InFlightPcs ==
  {"set_fields", "spawn", "get", "notify_timeout", "reset_waiting",
   "reset_fields", "drain"}

InFlightOn(w, u) == wk[w].uid = u /\ wk[w].pc \in InFlightPcs

\* The request of user u has timed out (queue.Empty was raised, line 260) and
\* no other request of u is pending.
TimedOut(u) ==
  /\ \E w \in Workers :
        /\ InFlightOn(w, u)
        /\ wk[w].pc \in {"notify_timeout", "reset_waiting", "reset_fields", "drain"}
        /\ wk[w].item = <<>>
  /\ \A w \in Workers :
        InFlightOn(w, u) => wk[w].pc \notin {"set_fields", "spawn", "get"}

\* A thread running send_to_user(user, {type: ...}): its place (pc), the
\* index of the list iterator (idx), whether the list it iterates has been
\* deleted from the dict (det).  History: origin is the user the message was
\* produced for, got the connections send_json was called on, clean that no
\* connection of user was registered or unregistered since the call, touched
\* the connections that were.
NewSend(u, type, origin) ==
  [user |-> u, type |-> type, origin |-> origin, pc |-> "test", idx |-> 0,
   det |-> FALSE, got |-> <<>>, clean |-> TRUE, touched |-> {},
   err |-> <<>>]

\* threading.Thread(target=...).start().  The model follows at most MaxSends
\* sending threads at a time; a thread started beyond that runs unobserved.
Started(s) == IF Cardinality(sends) < MaxSends THEN sends \cup {s} ELSE sends

\* ------------------------------------------------------------ check_email
\* The mailbox of the provider: message ids, and the thread of each message.
Threads == 1..NThreads
Msgs == 1..NMsgs
ThreadOf(id) == ((id - 1) % NThreads) + 1

\* get_last_n_emails, line 40.
MAX_MESSAGES_PER_THREAD == 5

\* Lines 44-65 and 68-73, as sets: the code only tests membership.
CategoryLabels ==
  {"CATEGORY_SOCIAL", "CATEGORY_PROMOTIONS", "CATEGORY_UPDATES", "CATEGORY_FORUMS"}
exclude_labels ==
  << CategoryLabels,
     CategoryLabels \cup {"UNREAD"},
     CategoryLabels \cup {"IMPORTANT"},
     CategoryLabels \cup {"IMPORTANT", "READ"} >>
include_labels ==
  << {"UNREAD", "INBOX", "IMPORTANT"}, {"INBOX", "IMPORTANT"},
     {"UNREAD", "INBOX"}, {"INBOX"} >>

\* The labelIds a messages().get() call may report for a message.
LabelSets ==
  { {"INBOX"}, {"INBOX", "UNREAD"}, {"INBOX", "CATEGORY_SOCIAL"},
    {"INBOX", "CATEGORY_PERSONAL"} }

\* The docstring of get_last_n_emails, lines 24-26: the global exclusions.
GlobalExclusions == CategoryLabels \cup {"CATEGORY_PERSONAL"}

\* The pages a messages().list() call may return: up to MaxPage message ids.
Pages == UNION { [1..k -> Msgs] : k \in 0..MaxPage }

\* A provider failure that is caught and the call made again.
RaisedRetry == "list"

\* The pc of a call that an exception of the provider has left.
Raised == "raised"

\* The locals of get_last_n_emails: num_threads (n), the index of the current
\* label combination (tier), has_more_label_combinations (more), first_page
\* (first), whether page_token is set, the messages of the current page not
\* yet visited (msgs), whether the current results carry a nextPageToken
\* (next), the threads dict in insertion order, and the returned list (ret).
\* History: used counts the messages listed so far, fetched holds the labels
\* of the message just fetched, cut says that a label combination was left
\* while the provider had announced a further page, hidden holds the threads
\* with an acceptable message on such a page, capped says that a message was
\* dropped because its thread was full, seenIn holds, per label combination,
\* the threads of the acceptable messages visited, seen the threads in the
\* order in which their first acceptable message was visited, failed says
\* that a provider call has raised.
IdleMail ==
  [pc |-> "idle", n |-> 0, tier |-> 1, more |-> TRUE, first |-> FALSE,
   page_token |-> FALSE, msgs |-> <<>>, next |-> FALSE, threads |-> <<>>,
   ret |-> <<>>, used |-> 0, fetched |-> {}, cut |-> FALSE, hidden |-> {},
   capped |-> FALSE, failed |-> FALSE, mock |-> <<>>,
   seenIn |-> [t \in 1..Len(include_labels) |-> {}],
   seen |-> <<>>]

\* ------------------------------------------------------------ user_state
\* models/user_state.py, BackgroundTaskState, lines 7-16, with the fields the
\* handlers of email_router.py read.  results and the draft fields hold 0 for
\* None, or the number of the draft the worker produced.
NewBackgroundTaskState ==
  [running |-> FALSE, status |-> "idle", results |-> 0,
   draft_email |-> 0, draft_subject |-> 0, draft_recipient |-> 0]

\* A /status request between its reads: the values read so far.  dead says
\* that the request began after a worker of the user had ended by an
\* exception.
IdleStatus ==
  [user |-> NoUser, draft_email |-> 0, draft_subject |-> 0,
   draft_recipient |-> 0, dead |-> FALSE]

\* UserStateService._user_states (states): get_user_state creates the state
\* of a user on first access with the defaults, so a user without an entry
\* and a user with the default entry read the same.  threads: the threads
\* started by process_emails_async, each with its user, its place (pc), the
\* number of the last draft it produced (d) and how it ended (out).  rd: the
\* /status request being served.  reply and resp: the last response of
\* /process-emails and of /status; asked counts the /process-emails requests.
IdleTask ==
  [states |-> [u \in Users |-> NewBackgroundTaskState],
   threads |-> <<>>, rd |-> IdleStatus, reply |-> <<>>, resp |-> <<>>,
   asked |-> 0]

\* The receive loops of websocket_endpoint: dead holds the websockets whose
\* handler ended by an exception other than WebSocketDisconnect, which closes
\* the websocket; reply is what the handler sent back for the last malformed
\* message (None: nothing), count the malformed messages received.
IdleWs ==
  [dead |-> {}, reply |-> <<>>, count |-> 0,
   during |-> {}, greeted |-> {}, prompted |-> {}, last |-> NoUser]

\* The event loop with a request_feedback that waits on it: no handler
\* starts while a request is blocked in get().
LoopIdleBlocked == ev.pc = "idle" /\ \A w \in Workers : wk[w].pc # "get"

\* The event loop is between two handlers.  get_yes_no_feedback is called by
\* the processing thread that process_emails_async starts, never by a
\* handler, so its place does not enter here.
LoopIdle == ev.pc = "idle"

\* ------------------------------------------------------------ Init
Init ==
  /\ user_connections = EmptyMap
  /\ connection_to_user = EmptyMap
  /\ user_feedback_states = EmptyMap
  /\ current_user_id = NoUser
  /\ wk = [w \in Workers |-> IdleWorker]
  /\ ev = IdleLoop
  /\ sends = {}
  /\ mail = IdleMail
  /\ task = IdleTask
  /\ ws = IdleWs

\* ------------------------------------------------------------ workers
\* get_yes_no_feedback, lines 137-163: the user id the request is made for.
\* With user_id None the process-wide _current_user_id is used.  The scan of
\* lines 150-159 looks for a state whose thread_name is the caller's; that
\* attribute is only set at line 211, which is reached only after a
\* connection was registered, and registering sets _current_user_id
\* (websocket_router.py 76-79): with _current_user_id None the scan finds
\* nothing and the call returns the default at line 163.
ResolveUser(a) == IF a # NoUser THEN a ELSE current_user_id

RequestCall(w, a) ==
  /\ wk[w].pc = "idle"
  /\ LET u == ResolveUser(a) IN
       wk' = [wk EXCEPT ![w] =
                IF u = NoUser
                THEN [@ EXCEPT !.pc = "done", !.ret = <<DefaultOutcome>>]
                ELSE [@ EXCEPT !.pc = "check_conn", !.ruid = u, !.uid = u,
                                !.quiet = (ev.pc = "idle"),
                                !.busy = (u \in DOMAIN user_feedback_states
                                          /\ user_feedback_states[u].waiting_for_feedback)]]
  /\ UNCHANGED <<regVars, fbVars, ev, sends, mail, task, ws>>

\* Lines 165-179: the user the request is routed to.  A user without a
\* connection is replaced by the only connected user, if there is exactly
\* one; the result is NoUser when the call returns the default instead.
RoutedUser(u) ==
  IF u \in DOMAIN user_connections THEN u
  ELSE IF Cardinality(DOMAIN user_connections) = 1
       THEN CHOOSE x \in DOMAIN user_connections : TRUE
       ELSE NoUser

CheckConn(w) ==
  /\ wk[w].pc = "check_conn"
  /\ LET u == RoutedUser(wk[w].uid) IN
       /\ wk' = [wk EXCEPT ![w] =
                   IF u = NoUser
                   THEN [@ EXCEPT !.pc = "done", !.ret = <<DefaultOutcome>>]
                   ELSE [@ EXCEPT !.pc = "set_waiting", !.uid = u,
                                   !.busy = @ /\ u = wk[w].uid]]
       \* line 176: set_current_user_id on the redirect
       /\ current_user_id' =
            IF u # NoUser /\ u # wk[w].uid THEN u ELSE current_user_id
  /\ UNCHANGED <<regVars, user_feedback_states, ev, sends, mail, task, ws>>

\* Lines 200-204.  The code has no test of waiting_for_feedback here.
SetWaiting(w) ==
  /\ wk[w].pc = "set_waiting"
  /\ LET u == wk[w].uid
         alone == \A x \in Workers \ {w} : ~InFlightOn(x, u)
         st == GetUserState(user_feedback_states, u)
         mark(q) == [i \in 1..Len(q) |-> [q[i] EXCEPT !.old = TRUE]]
     IN
       /\ user_feedback_states' =
            [st EXCEPT ![u].waiting_for_feedback = TRUE,
                       ![u].feedback_queue =
                          IF alone THEN mark(@) ELSE @]
       /\ wk' = [wk EXCEPT ![w].pc = "set_fields"]
       /\ ev' = IF alone /\ ev.pc = "put" /\ ev.uid = u
                THEN [ev EXCEPT !.old = TRUE] ELSE ev
  /\ UNCHANGED <<regVars, current_user_id, sends, mail, task, ws>>

\* Lines 205-211.
SetFields(w) ==
  /\ wk[w].pc = "set_fields"
  /\ LET u == wk[w].uid IN
       user_feedback_states' =
         [user_feedback_states EXCEPT
            ![u].current_prompt = RequestOf[w].prompt,
            ![u].current_decision = RequestOf[w].decision,
            ![u].current_context = RequestOf[w].context]
  /\ wk' = [wk EXCEPT ![w].pc = "spawn"]
  /\ UNCHANGED <<regVars, current_user_id, ev, sends, mail, task, ws>>

\* Lines 213-240: the thread that sends feedback_required is started.
SpawnRequest(w) ==
  /\ wk[w].pc = "spawn"
  /\ sends' = Started(NewSend(wk[w].uid, "feedback_required", wk[w].ruid))
  /\ wk' = [wk EXCEPT ![w].pc = "get"]
  /\ UNCHANGED <<regVars, fbVars, ev, mail, task, ws>>

\* Line 246: feedback_queue.get(timeout=timeout) returns the head.
GetItem(w) ==
  /\ wk[w].pc = "get"
  /\ LET u == wk[w].uid
         q == user_feedback_states[u].feedback_queue
     IN /\ q # <<>>
        /\ wk' = [wk EXCEPT ![w].pc = "reset_waiting", ![w].item = <<Head(q)>>]
        /\ user_feedback_states' =
             [user_feedback_states EXCEPT ![u].feedback_queue = Tail(@)]
  /\ UNCHANGED <<regVars, current_user_id, ev, sends, mail, task, ws>>

\* Lines 246, 260-261: queue.Empty is raised when the timeout elapses with
\* the queue empty.
Timeout(w) ==
  /\ wk[w].pc = "get"
  /\ user_feedback_states[wk[w].uid].feedback_queue = <<>>
  /\ wk' = [wk EXCEPT ![w].pc = "notify_timeout"]
  /\ UNCHANGED <<regVars, fbVars, ev, sends, mail, task, ws>>

\* Lines 263-276: the thread that sends feedback_timeout is started.
NotifyTimeout(w) ==
  /\ wk[w].pc = "notify_timeout"
  /\ sends' = Started(NewSend(wk[w].uid, "feedback_timeout", wk[w].ruid))
  /\ wk' = [wk EXCEPT ![w].pc = "reset_waiting"]
  /\ UNCHANGED <<regVars, fbVars, ev, mail, task, ws>>

\* UserFeedbackState.reset, line 42.
ResetWaiting(w) ==
  /\ wk[w].pc = "reset_waiting"
  /\ user_feedback_states' =
       [user_feedback_states EXCEPT ![wk[w].uid].waiting_for_feedback = FALSE]
  /\ wk' = [wk EXCEPT ![w].pc = "reset_fields"]
  /\ UNCHANGED <<regVars, current_user_id, ev, sends, mail, task, ws>>

\* UserFeedbackState.reset, lines 43-45.
ResetFields(w) ==
  /\ wk[w].pc = "reset_fields"
  /\ user_feedback_states' =
       [user_feedback_states EXCEPT ![wk[w].uid].current_prompt = None,
                                    ![wk[w].uid].current_decision = None,
                                    ![wk[w].uid].current_context = None]
  /\ wk' = [wk EXCEPT ![w].pc = "drain"]
  /\ UNCHANGED <<regVars, current_user_id, ev, sends, mail, task, ws>>

\* Lines 247-248 and 259, or 281: the value the call returns.
Outcome(item) ==
  IF item = <<>> THEN DefaultOutcome
  ELSE [ok |-> item[1].feedback,
        raw |-> IF item[1].feedback THEN "correct" ELSE "wrong"]

\* UserFeedbackState.reset, lines 47-52, one iteration of the loop; with the
\* queue empty reset() ends and the call returns (line 259 or 281).
Drain(w) ==
  /\ wk[w].pc = "drain"
  /\ LET u == wk[w].uid
         q == user_feedback_states[u].feedback_queue
     IN IF q # <<>>
        THEN /\ user_feedback_states' =
                  [user_feedback_states EXCEPT ![u].feedback_queue = Tail(@)]
             /\ UNCHANGED wk
        ELSE /\ wk' = [wk EXCEPT ![w].pc = "done",
                                  ![w].ret = <<Outcome(wk[w].item)>>]
             /\ UNCHANGED user_feedback_states
  /\ UNCHANGED <<regVars, current_user_id, ev, sends, mail, task, ws>>

\* The caller has the result; the thread is free for its next checkpoint.
Return(w) ==
  /\ wk[w].pc = "done"
  /\ wk' = [wk EXCEPT ![w] = IdleWorker]
  /\ UNCHANGED <<regVars, fbVars, ev, sends, mail, task, ws>>

\* ------------------------------------------------------------ event loop
\* FeedbackService.provide_feedback, lines 67-70: set_current_user_id is
\* called before anything is known about the state of the user.
\* A client sends no further answer while MaxQueue answers are unconsumed.
SubmitCall(u, v) ==
  /\ LoopIdle
  /\ \A x \in DOMAIN user_feedback_states :
        Len(user_feedback_states[x].feedback_queue) < MaxQueue
  /\ current_user_id' = u
  /\ ev' = [IdleLoop EXCEPT !.pc = "lookup", !.arg = u, !.uid = u, !.val = v,
                            !.late = (u \in DOMAIN user_feedback_states
                                      /\ TimedOut(u))]
  /\ wk' = [w \in Workers |->
              IF wk[w].pc # "idle" THEN [wk[w] EXCEPT !.quiet = FALSE]
              ELSE wk[w]]
  /\ UNCHANGED <<regVars, user_feedback_states, sends, mail, task, ws>>

\* provide_feedback, lines 294-304: the user whose state is used.  An unknown
\* user id is replaced by the only waiting user, if there is exactly one; the
\* result is NoUser when the call returns False instead.
WaitingUsers(states) ==
  { x \in DOMAIN states : states[x].waiting_for_feedback }

SubmitTarget(states, u) ==
  IF u \in DOMAIN states THEN u
  ELSE IF Cardinality(WaitingUsers(states)) = 1
       THEN CHOOSE x \in WaitingUsers(states) : TRUE
       ELSE NoUser

SubmitLookup ==
  /\ ev.pc = "lookup"
  /\ LET u == SubmitTarget(user_feedback_states, ev.uid) IN
       ev' = IF u = NoUser
             THEN [ev EXCEPT !.pc = "sync", !.ret = <<FALSE>>]
             ELSE [ev EXCEPT !.pc = "check_waiting", !.uid = u]
  /\ UNCHANGED <<regVars, fbVars, wk, sends, mail, task, ws>>

\* provide_feedback, lines 306-310.
SubmitCheck ==
  /\ ev.pc = "check_waiting"
  /\ IF user_feedback_states[ev.uid].waiting_for_feedback
     THEN /\ ev' = [ev EXCEPT !.pc = "put"]
          /\ wk' = [w \in Workers |->
                      IF wk[w].uid = ev.uid /\ wk[w].pc = "get"
                      THEN IF wk[w].fast # <<>>
                           THEN [wk[w] EXCEPT !.dup = TRUE]
                           ELSE IF user_feedback_states[ev.uid].feedback_queue = <<>>
                                THEN [wk[w] EXCEPT !.fast = <<ev.val>>]
                                ELSE wk[w]
                      ELSE wk[w]]
     ELSE /\ ev' = [ev EXCEPT !.pc = "sync", !.ret = <<FALSE>>]
          /\ UNCHANGED wk
  /\ UNCHANGED <<regVars, fbVars, sends, mail, task, ws>>

\* provide_feedback, lines 312-331: the value is queued, the thread that
\* sends feedback_received is started, True is returned.
SubmitPut ==
  /\ ev.pc = "put"
  /\ user_feedback_states' =
       [user_feedback_states EXCEPT ![ev.uid].feedback_queue =
          Append(@, [feedback |-> ev.val, old |-> ev.old])]
  /\ sends' = Started(NewSend(ev.uid, "feedback_received", ev.arg))
  /\ ev' = [ev EXCEPT !.pc = "sync", !.ret = <<TRUE>>]
  /\ UNCHANGED <<regVars, current_user_id, wk, mail, task, ws>>

\* FeedbackService.provide_feedback, lines 75-80: get_feedback_state calls
\* get_user_state(user_id), which creates the state of an unknown user; the
\* flag it then clears is the service's own copy, not the state of
\* web_feedback.  The handler returns the result.
SubmitSync ==
  /\ ev.pc = "sync"
  /\ user_feedback_states' = GetUserState(user_feedback_states, ev.arg)
  /\ ev' = IdleLoop
  /\ UNCHANGED <<regVars, current_user_id, wk, sends, mail, task, ws>>

\* websocket_router.websocket_endpoint, lines 68-105, for a new websocket c:
\* ConnectionManager.connect (lines 33-35), set_current_user (line 79), and
\* get_feedback_state (line 89), which creates the feedback state of u.
WsRegister(c, u) ==
  /\ LoopIdle
  /\ c \notin DOMAIN connection_to_user
  /\ user_connections' =
       MapPut(user_connections, u,
              Append(IF u \in DOMAIN user_connections
                     THEN user_connections[u] ELSE <<>>, c))
  /\ connection_to_user' = MapPut(connection_to_user, c, u)
  /\ current_user_id' = u
  /\ user_feedback_states' = GetUserState(user_feedback_states, u)
  /\ sends' = { IF s.user = u
                THEN [s EXCEPT !.clean = FALSE, !.touched = @ \cup {c}]
                ELSE s : s \in sends }
  /\ UNCHANGED <<wk, ev, mail, task>>

WsOpen(c, u) == WsRegister(c, u) /\ UNCHANGED ws

\* websocket_endpoint, line 91, on the copy get_feedback_state made.
Pending(states, u) == u \in DOMAIN states /\ states[u].waiting_for_feedback

\* WsOpen, with line 69, set_last_connected_user_id, which only
\* get_current_user_id reads, and with the history of the websocket: during
\* says that the user was waiting for feedback when c was appended to the
\* list (line 33), greeted and prompted start empty for c.
WsOpenSeen(c, u) ==
  /\ WsRegister(c, u)
  /\ ws' = [ws EXCEPT
             !.last = u,
             !.during = IF Pending(user_feedback_states, u)
                        THEN @ \cup {c} ELSE @ \ {c},
             !.greeted = @ \ {c}, !.prompted = @ \ {c}]

\* websocket_endpoint, lines 81-105, after the awaits of accept (line 31) and
\* of the send of the initial status (line 83): the handler reads
\* waiting_for_feedback and, if it is set, sends feedback_required on its own
\* websocket (lines 100-104).
WsGreet(c) ==
  /\ LoopIdle
  /\ c \in DOMAIN connection_to_user
  /\ c \notin ws.greeted
  /\ c \notin ws.dead
  /\ ws' = [ws EXCEPT
             !.greeted = @ \cup {c},
             !.prompted = IF Pending(user_feedback_states, connection_to_user[c])
                          THEN @ \cup {c} ELSE @]
  /\ UNCHANGED <<serverVars, mail, task>>

\* ConnectionManager.connect, lines 33-35, called for a websocket c that is
\* registered already: the list of u gets one more entry for c and the reverse
\* map of c is overwritten; the list c was in before is not looked at.
\* Such calls stop when the lists hold MaxList entries altogether.
Entries ==
  { p \in (DOMAIN user_connections) \X (1..(MaxList + NConns)) :
      p[2] <= Len(user_connections[p[1]]) }

Reconnect(c, u) ==
  /\ LoopIdle
  /\ c \in DOMAIN connection_to_user
  /\ Cardinality(Entries) < MaxList
  /\ LET l == IF u \in DOMAIN user_connections THEN user_connections[u] ELSE <<>>
     IN user_connections' = MapPut(user_connections, u, Append(l, c))
  /\ connection_to_user' = MapPut(connection_to_user, c, u)
  /\ sends' = { IF s.user \in {u, connection_to_user[c]}
                THEN [s EXCEPT !.clean = FALSE, !.touched = @ \cup {c}]
                ELSE s : s \in sends }
  /\ UNCHANGED <<fbVars, wk, ev, mail, task, ws>>

\* websocket_router.websocket_endpoint, lines 132-133, and
\* ConnectionManager.disconnect, lines 46-55.
WsClose(c) ==
  /\ LoopIdle
  /\ c \in DOMAIN connection_to_user
  /\ LET u == connection_to_user[c]
         l == ListRemove(IF u \in DOMAIN user_connections
                         THEN user_connections[u] ELSE <<>>, c)
     IN /\ user_connections' =
             IF l = <<>> THEN MapDel(user_connections, u)
             ELSE MapPut(user_connections, u, l)
        /\ sends' =
             { IF s.user = u
               THEN [s EXCEPT !.clean = FALSE,
                              !.touched = @ \cup {c},
                              !.det = @ \/ (s.pc = "iter" /\ l = <<>>)]
               ELSE s : s \in sends }
  /\ connection_to_user' = MapDel(connection_to_user, c)
  /\ UNCHANGED <<fbVars, wk, ev, mail, task, ws>>

\* websocket_endpoint, lines 108-131, for a message on websocket c that is
\* not a FeedbackMessage.  kind "no_feedback": JSON without a boolean
\* feedback; FeedbackMessage(**raw_data) raises inside the try of line 112 and
\* the handler replies with type error (lines 127-131).  kind "not_json":
\* receive_json (line 109) raises the decode error outside that try; the only
\* handler around the loop catches WebSocketDisconnect (line 132), so the
\* exception ends the handler without a reply and without disconnect().
WsMalformed(c, kind) ==
  /\ LoopIdle
  /\ c \in DOMAIN connection_to_user
  /\ c \notin ws.dead
  /\ ws.count < MaxMalformed
  /\ ws' = IF kind = "no_feedback"
           THEN [ws EXCEPT !.count = @ + 1,
                           !.reply = <<[conn |-> c, type |-> "error"]>>]
           ELSE [ws EXCEPT !.count = @ + 1,
                           !.reply = <<[conn |-> c, type |-> None]>>,
                           !.dead = @ \cup {c}]
  /\ UNCHANGED <<serverVars, mail, task>>

\* websocket_endpoint, lines 109-116, for a provide_feedback message with the
\* value v on websocket c.
WsFeedback(c, v) ==
  /\ c \in DOMAIN connection_to_user
  /\ c \notin ws.dead
  /\ SubmitCall(connection_to_user[c], v)

\* ------------------------------------------------------------ send_to_user
\* ConnectionManager.send_to_user, line 66 (and 72-73).
SendTest(s) ==
  /\ s.pc = "test"
  /\ sends' = (sends \ {s}) \cup
       { IF s.user \in DOMAIN user_connections
         THEN [s EXCEPT !.pc = "lookup"] ELSE [s EXCEPT !.pc = "done"] }
  /\ UNCHANGED <<regVars, fbVars, wk, ev, mail, task, ws>>

\* Line 67: self.user_connections[user_id] on a defaultdict(list) creates an
\* empty list for a user that is no longer a key; the for loop then holds a
\* reference to the list.
SendLookup(s) ==
  /\ s.pc = "lookup"
  /\ user_connections' =
       IF s.user \in DOMAIN user_connections THEN user_connections
       ELSE MapPut(user_connections, s.user, <<>>)
  /\ sends' = (sends \ {s}) \cup {[s EXCEPT !.pc = "iter"]}
  /\ UNCHANGED <<connection_to_user, fbVars, wk, ev, mail, task, ws>>

\* A send_to_user whose loop visits every connection twice.
RecipientsTwice(s) ==
  IF s.det THEN <<>> ELSE user_connections[s.user] \o user_connections[s.user]

\* The list the for loop of line 67 iterates: the live list of the user, or
\* the (empty) list that disconnect has deleted from the dict meanwhile.
Recipients(s) == IF s.det THEN <<>> ELSE user_connections[s.user]

\* Lines 67-71, one iteration: the list iterator yields the element at its
\* index, or ends the loop when the index has reached the length of the list.
SendNext(s) ==
  /\ s.pc = "iter"
  /\ LET l == Recipients(s) IN
       sends' = (sends \ {s}) \cup
         { IF s.idx < Len(l)
           THEN [s EXCEPT !.idx = @ + 1, !.got = Append(@, l[s.idx + 1])]
           ELSE [s EXCEPT !.pc = "done"] }
  /\ UNCHANGED <<regVars, fbVars, wk, ev, mail, task, ws>>

\* A send_to_user that a failing send_json leaves with the exception.
AfterErrorRaised == "raised"

\* Lines 70-71: the except clause logs, and the for loop goes on.
AfterError == "iter"

\* Lines 67-71, one iteration in which connection.send_json raises: the
\* connection is recorded in err and nothing else is touched.
SendFail(s) ==
  /\ s.pc = "iter"
  /\ LET l == Recipients(s) IN
       /\ s.idx < Len(l)
       /\ sends' = (sends \ {s}) \cup
            {[s EXCEPT !.idx = @ + 1, !.err = Append(@, l[s.idx + 1]),
                       !.pc = AfterError]}
  /\ UNCHANGED <<regVars, fbVars, wk, ev, mail, task, ws>>

\* The thread of the send ends.
SendExit(s) ==
  /\ s.pc = "done"
  /\ sends' = sends \ {s}
  /\ UNCHANGED <<regVars, fbVars, wk, ev, mail, task, ws>>

\* email_router.process_emails, draft_callback, lines 84-108: a thread that
\* sends a status_update to u.
DraftNotify(u) ==
  /\ Cardinality(sends) < MaxDrafts
  /\ sends' = sends \cup {NewSend(u, "status_update", u)}
  /\ UNCHANGED <<regVars, fbVars, wk, ev, mail, task, ws>>

\* ------------------------------------------------------------ get_last_n_emails
\* Lines 75-91: the call, with num_threads = n.
MailCall(n) ==
  /\ mail.pc = "idle"
  /\ mail' = [IdleMail EXCEPT !.pc = "outer", !.n = n]
  /\ UNCHANGED <<serverVars, task, ws>>

\* Line 94, the test of the outer loop, and lines 98-102.
MailOuter ==
  /\ mail.pc = "outer"
  /\ mail' = IF Len(mail.threads) < mail.n /\ mail.more
             THEN [mail EXCEPT !.pc = "inner", !.page_token = FALSE, !.first = TRUE]
             ELSE [mail EXCEPT !.pc = "flatten"]
  /\ UNCHANGED <<serverVars, task, ws>>

\* Line 103, the test of the page loop, and line 104.
MailInner ==
  /\ mail.pc = "inner"
  /\ mail' = IF Len(mail.threads) < mail.n /\ (mail.first \/ mail.page_token)
             THEN [mail EXCEPT !.pc = "list", !.first = FALSE]
             ELSE [mail EXCEPT !.pc = "advance"]
  /\ UNCHANGED <<serverVars, task, ws>>

\* Lines 105-122: the list call.  The provider answers with a page and with
\* or without a nextPageToken; an empty page ends the page loop (line 122).
\* h is what lies on the page behind the token of an empty page.
MailList(page, nxt, h) ==
  /\ mail.pc = "list"
  /\ Len(page) <= MaxItems - mail.used
  /\ (h # {}) => (page = <<>> /\ nxt)
  /\ mail' = IF page = <<>>
             THEN [mail EXCEPT !.pc = "advance", !.msgs = <<>>, !.next = nxt,
                               !.cut = @ \/ nxt, !.hidden = @ \cup h]
             ELSE [mail EXCEPT !.pc = "item", !.msgs = page, !.next = nxt,
                               !.used = @ + Len(page)]
  /\ UNCHANGED <<serverVars, task, ws>>

\* Lines 105-122 with the provider of tests/test_check_email.py,
\* MockListRequest.execute (lines 77-116): it does not read pageToken, so
\* every list call of a tier gets the same answer, the first page of the
\* matching messages, with a nextPageToken when more messages match than
\* the page holds.  mail.mock remembers the answer given for the tier.
MailListMock(page, nxt) ==
  /\ mail.pc = "list"
  /\ (page = <<>>) => ~nxt
  /\ IF mail.mock = <<>> THEN TRUE
     ELSE \/ mail.mock[1].tier # mail.tier
          \/ mail.mock[1].page = page /\ mail.mock[1].next = nxt
  /\ mail' = IF page = <<>>
             THEN [mail EXCEPT !.pc = "advance", !.msgs = <<>>, !.next = nxt,
                               !.mock = <<[tier |-> mail.tier, page |-> page,
                                           next |-> nxt]>>]
             ELSE [mail EXCEPT !.pc = "item", !.msgs = page, !.next = nxt,
                               !.mock = <<[tier |-> mail.tier, page |-> page,
                                           next |-> nxt]>>]
  /\ UNCHANGED <<serverVars, task, ws>>

\* Line 115: the list call raises.  Nothing in get_last_n_emails catches it.
MailListFail ==
  /\ mail.pc = "list"
  /\ mail' = [mail EXCEPT !.pc = Raised, !.failed = TRUE]
  /\ UNCHANGED <<serverVars, task, ws>>

\* A post-filter that lets every message through.
ExcludedNever(labels, tier) == FALSE

\* A lookup that never finds the thread.
HasThreadNever(ts, g) == FALSE

\* An order that does not count.
NextOrderOne(msgs) == 1

\* A test of line 125 that never breaks out of the page.
EnoughNever(ts, n) == FALSE

\* Line 125: len(threads) >= num_threads.
Enough(ts, n) == Len(ts) >= n

\* Line 134: the post-filter of the current label combination.
Excluded(labels, tier) == labels \cap exclude_labels[tier] # {}

\* Line 144: thread_id in threads.
HasThread(ts, g) == \E i \in 1..Len(ts) : ts[i].thread_id = g

\* Line 149: the order of the next message of a thread.
NextOrder(msgs) == Len(msgs) + 1

\* Lines 137-150: the message id of thread g is recorded.
Accept(ts, id, g) ==
  IF ~HasThread(ts, g)
  THEN Append(ts, [thread_id |-> g,
                   messages |-> <<[messageId |-> id, threadId |-> g, order |-> 1]>>])
  ELSE [i \in 1..Len(ts) |->
          IF ts[i].thread_id = g /\ Len(ts[i].messages) < MAX_MESSAGES_PER_THREAD
          THEN [ts[i] EXCEPT !.messages =
                  Append(@, [messageId |-> id, threadId |-> g,
                             order |-> NextOrder(ts[i].messages)])]
          ELSE ts[i]]

\* The thread g holds MAX_MESSAGES_PER_THREAD messages.
Full(ts, g) ==
  \E i \in 1..Len(ts) :
    ts[i].thread_id = g /\ Len(ts[i].messages) >= MAX_MESSAGES_PER_THREAD

\* Lines 124-150, one iteration of the for loop: the message is fetched, the
\* provider reports its labels, and it is dropped or recorded.
MailItem(labels) ==
  /\ mail.pc = "item"
  /\ mail.msgs # <<>>
  /\ ~Enough(mail.threads, mail.n)
  /\ LET id == Head(mail.msgs)
         g == ThreadOf(id)
     IN mail' =
          IF Excluded(labels, mail.tier)
          THEN [mail EXCEPT !.msgs = Tail(@), !.fetched = labels]
          ELSE [mail EXCEPT !.msgs = Tail(@), !.fetched = labels,
                            !.threads = Accept(@, id, g),
                            !.capped = @ \/ Full(mail.threads, g),
                            !.seenIn[mail.tier] = @ \cup {g},
                            !.seen = IF g \in ListElems(@) THEN @
                                     ELSE Append(@, g)]
  /\ UNCHANGED <<serverVars, task, ws>>

\* Line 130: the get call raises.  Nothing in get_last_n_emails catches it.
MailGetFail ==
  /\ mail.pc = "item"
  /\ mail.msgs # <<>>
  /\ ~Enough(mail.threads, mail.n)
  /\ mail' = [mail EXCEPT !.pc = Raised, !.failed = TRUE]
  /\ UNCHANGED <<serverVars, task, ws>>

\* The end of the for loop (the page is exhausted, or the break of line 126)
\* and lines 153-156.
MailPageEnd ==
  /\ mail.pc = "item"
  /\ mail.msgs = <<>> \/ Enough(mail.threads, mail.n)
  /\ mail' = [mail EXCEPT !.msgs = <<>>, !.page_token = mail.next,
                          !.fetched = {},
                          !.pc = IF mail.next THEN "inner" ELSE "advance"]
  /\ UNCHANGED <<serverVars, task, ws>>

\* Lines 159-167: the next label combination, if more threads are needed.
MailAdvance ==
  /\ mail.pc = "advance"
  /\ mail' = IF Len(mail.threads) >= mail.n
             THEN [mail EXCEPT !.pc = "outer"]
             ELSE IF mail.tier < Len(include_labels)
                  THEN [mail EXCEPT !.pc = "outer", !.tier = @ + 1]
                  ELSE [mail EXCEPT !.pc = "outer", !.more = FALSE]
  /\ UNCHANGED <<serverVars, task, ws>>

\* Line 178: threads_list[:num_threads].
FirstN(l, n) == SubSeq(l, 1, IF n < Len(l) THEN n ELSE Len(l))

\* Lines 169-178.
MailReturn ==
  /\ mail.pc = "flatten"
  /\ mail' = [mail EXCEPT !.pc = "done", !.ret = FirstN(mail.threads, mail.n)]
  /\ UNCHANGED <<serverVars, task, ws>>

\* ------------------------------------------------------------ process-emails
\* A test of the running flag that never finds it set.
IsRunningNever(bts) == FALSE

\* email_router.process_emails, line 38.
IsRunning(bts) == bts.running

\* The processing threads of user u that have not ended.
Active(ths, u) == { i \in 1..Len(ths) : ths[i].user = u /\ ths[i].pc # "ended" }

\* email_router.process_emails, lines 32-119, for the user id u that
\* get_current_user_id returns and credentials that are valid or not.  The
\* handler is a coroutine without a suspension point, so it runs as one step
\* of the event loop.  Lines 56-59 read the same last connected user id as
\* get_current_user_id did.
ProcessEmails(u, valid) ==
  /\ LoopIdle
  /\ task.asked < MaxAsks
  /\ IF IsRunning(task.states[u])
     THEN /\ task' = [task EXCEPT !.asked = @ + 1,
                         !.reply = <<[user |-> u, status |-> "already_running"]>>]
          /\ UNCHANGED current_user_id
     ELSE IF ~valid
     THEN /\ task' = [task EXCEPT !.asked = @ + 1,
                         !.reply = <<[user |-> u, status |-> "not_authenticated"]>>]
          /\ UNCHANGED current_user_id
     ELSE /\ Len(task.threads) < MaxTasks
          /\ current_user_id' = u
          /\ task' = [task EXCEPT
                !.asked = @ + 1,
                !.states[u] = [@ EXCEPT !.running = TRUE, !.status = "starting",
                                        !.results = 0],
                !.threads = Append(@, [user |-> u, pc |-> "run", d |-> 0,
                                       out |-> None]),
                !.reply = <<[user |-> u, status |-> "started"]>>]
  /\ UNCHANGED <<regVars, user_feedback_states, wk, ev, sends, mail, ws>>

\* draft_callback, line 76, called by the orchestrator on thread i with a new
\* draft.
TaskDraftEmail(i) ==
  /\ i \in 1..Len(task.threads)
  /\ task.threads[i].pc = "run"
  /\ task.threads[i].d < MaxVersions
  /\ LET t == task.threads[i] IN
       task' = [task EXCEPT !.threads[i] = [t EXCEPT !.pc = "subject", !.d = @ + 1],
                            !.states[t.user].draft_email = t.d + 1]
  /\ UNCHANGED <<serverVars, mail, ws>>

\* draft_callback, line 77.
TaskDraftSubject(i) ==
  /\ i \in 1..Len(task.threads)
  /\ task.threads[i].pc = "subject"
  /\ LET t == task.threads[i] IN
       task' = [task EXCEPT !.threads[i].pc = "recipient",
                            !.states[t.user].draft_subject = t.d]
  /\ UNCHANGED <<serverVars, mail, ws>>

\* draft_callback, line 78.
TaskDraftRecipient(i) ==
  /\ i \in 1..Len(task.threads)
  /\ task.threads[i].pc = "recipient"
  /\ LET t == task.threads[i] IN
       task' = [task EXCEPT !.threads[i].pc = "results",
                            !.states[t.user].draft_recipient = t.d]
  /\ UNCHANGED <<serverVars, mail, ws>>

\* draft_callback, lines 79-108: results is stored and the thread that sends
\* the status_update is started.
TaskDraftResults(i) ==
  /\ i \in 1..Len(task.threads)
  /\ task.threads[i].pc = "results"
  /\ LET t == task.threads[i] IN
       /\ task' = [task EXCEPT !.threads[i].pc = "run",
                               !.states[t.user].results = t.d]
       /\ sends' = Started(NewSend(t.user, "status_update", t.user))
  /\ UNCHANGED <<regVars, fbVars, wk, ev, mail, ws>>

\* EmailService._process_emails_task, lines 45-57: the orchestrator returns
\* or raises; either way the task function returns a value that is dropped,
\* and the task state is not written.
TaskEnd(i, out) ==
  /\ i \in 1..Len(task.threads)
  /\ task.threads[i].pc = "run"
  /\ task' = [task EXCEPT !.threads[i] = [@ EXCEPT !.pc = "ended", !.out = out]]
  /\ UNCHANGED <<serverVars, mail, ws>>

\* ------------------------------------------------------------ status
\* email_router.status, lines 127-131, for the user id u.  The handler runs on
\* the event loop; the processing threads run between its reads.
StatusCall(u) ==
  /\ LoopIdle
  /\ ev' = [IdleLoop EXCEPT !.pc = "status_email", !.arg = u]
  /\ task' = [task EXCEPT !.resp = <<>>, !.rd =
       [IdleStatus EXCEPT !.user = u,
          !.dead = \E i \in 1..Len(task.threads) :
                     /\ task.threads[i].user = u
                     /\ task.threads[i].pc = "ended"
                     /\ task.threads[i].out = "raised"]]
  /\ UNCHANGED <<regVars, fbVars, wk, sends, mail, ws>>

\* Line 148.
StatusEmail ==
  /\ ev.pc = "status_email"
  /\ ev' = [ev EXCEPT !.pc = "status_subject"]
  /\ task' = [task EXCEPT !.rd.draft_email = task.states[ev.arg].draft_email]
  /\ UNCHANGED <<regVars, fbVars, wk, sends, mail, ws>>

\* Line 149.
StatusSubject ==
  /\ ev.pc = "status_subject"
  /\ ev' = [ev EXCEPT !.pc = "status_recipient"]
  /\ task' = [task EXCEPT !.rd.draft_subject = task.states[ev.arg].draft_subject]
  /\ UNCHANGED <<regVars, fbVars, wk, sends, mail, ws>>

\* Line 150.
StatusRecipient ==
  /\ ev.pc = "status_recipient"
  /\ ev' = [ev EXCEPT !.pc = "status_extract"]
  /\ task' = [task EXCEPT !.rd.draft_recipient = task.states[ev.arg].draft_recipient]
  /\ UNCHANGED <<regVars, fbVars, wk, sends, mail, ws>>

\* Lines 152-160: without a draft_email, the draft is taken from results
\* (extract_draft_email_data, case 1: the fields of the stored draft_data).
StatusExtract ==
  /\ ev.pc = "status_extract"
  /\ ev' = [ev EXCEPT !.pc = "status_respond"]
  /\ LET r == task.states[ev.arg].results IN
       task' = IF task.rd.draft_email = 0 /\ r # 0
               THEN [task EXCEPT !.rd.draft_email = r, !.rd.draft_subject = r,
                                 !.rd.draft_recipient = r]
               ELSE task
  /\ UNCHANGED <<regVars, fbVars, wk, sends, mail, ws>>

\* Lines 171-189: the response.
StatusRespond ==
  /\ ev.pc = "status_respond"
  /\ ev' = IdleLoop
  /\ LET b == task.states[ev.arg] IN
       task' = [task EXCEPT
         !.rd = IdleStatus,
         !.resp = <<[user |-> ev.arg, running |-> b.running, status |-> b.status,
                     results |-> b.results,
                     draft_email |-> task.rd.draft_email,
                     draft_subject |-> task.rd.draft_subject,
                     draft_recipient |-> task.rd.draft_recipient,
                     dead |-> task.rd.dead]>>]
  /\ UNCHANGED <<regVars, fbVars, wk, sends, mail, ws>>

\* ------------------------------------------------------------ sessions
\* UserStateService.get_current_user_id, lines 40-49, for a request whose
\* session holds the user id a.
GetCurrentUserId(a) == IF ws.last # NoUser THEN ws.last ELSE a

\* email_router.status, line 128, for a request with the session of user a.
StatusRequest(a) == StatusCall(GetCurrentUserId(a))

\* email_router.provide_feedback_endpoint, lines 201-204, for a request with
\* the session of user a and the answer v.
FeedbackRequest(a, v) == SubmitCall(GetCurrentUserId(a), v)

\* ------------------------------------------------------------ specifications
\* The feedback rendezvous: one worker thread at its checkpoints, the event
\* loop answering and registering connections.  The threads that send the
\* notifications are started and left unobserved.
Pipeline == {"w1"}

Next ==
  \/ \E w \in Pipeline, a \in Users \cup {NoUser} : RequestCall(w, a)
  \/ \E w \in Pipeline : CheckConn(w)
  \/ \E w \in Pipeline : SetWaiting(w)
  \/ \E w \in Pipeline : SetFields(w)
  \/ \E w \in Pipeline : SpawnRequest(w)
  \/ \E w \in Pipeline : GetItem(w)
  \/ \E w \in Pipeline : Timeout(w)
  \/ \E w \in Pipeline : NotifyTimeout(w)
  \/ \E w \in Pipeline : ResetWaiting(w)
  \/ \E w \in Pipeline : ResetFields(w)
  \/ \E w \in Pipeline : Drain(w)
  \/ \E w \in Pipeline : Return(w)
  \/ \E u \in Users, v \in BOOLEAN : SubmitCall(u, v)
  \/ SubmitLookup
  \/ SubmitCheck
  \/ SubmitPut
  \/ SubmitSync
  \/ \E c \in Conns, u \in Users : WsOpen(c, u)

Spec == Init /\ [][Next]_vars

\* Routing of requests and of their notifications: the worker threads of two
\* users, connections being registered, the sending threads.  Nobody answers,
\* so every request ends by its timeout.
NextRoute ==
  \/ \E w \in Workers, a \in Users \cup {NoUser} : RequestCall(w, a)
  \/ \E w \in Workers : CheckConn(w)
  \/ \E w \in Workers : SetWaiting(w)
  \/ \E w \in Workers : SetFields(w)
  \/ \E w \in Workers : SpawnRequest(w)
  \/ \E w \in Workers : Timeout(w)
  \/ \E w \in Workers : NotifyTimeout(w)
  \/ \E w \in Workers : ResetWaiting(w)
  \/ \E w \in Workers : ResetFields(w)
  \/ \E w \in Workers : Drain(w)
  \/ \E w \in Workers : Return(w)
  \/ \E c \in Conns, u \in Users : WsOpen(c, u)
  \/ \E s \in sends : SendTest(s)
  \/ \E s \in sends : SendLookup(s)
  \/ \E s \in sends : SendNext(s)
  \/ \E s \in sends : SendExit(s)

SpecRoute == Init /\ [][NextRoute]_vars

\* The connection registry alone: connections come and go while threads send.
NextRegistry ==
  \/ \E c \in Conns, u \in Users : WsOpen(c, u)
  \/ \E c \in Conns : WsClose(c)
  \/ \E u \in Users : DraftNotify(u)
  \/ \E s \in sends : SendTest(s)
  \/ \E s \in sends : SendLookup(s)
  \/ \E s \in sends : SendNext(s)
  \/ \E s \in sends : SendExit(s)

SpecRegistry == Init /\ [][NextRegistry]_vars

\* The registry and the sending threads when send_json may fail.
NextSend ==
  \/ \E c \in Conns, u \in Users : WsOpen(c, u)
  \/ \E c \in Conns : WsClose(c)
  \/ \E u \in Users : DraftNotify(u)
  \/ \E s \in sends : SendTest(s)
  \/ \E s \in sends : SendLookup(s)
  \/ \E s \in sends : SendNext(s)
  \/ \E s \in sends : SendFail(s)
  \/ \E s \in sends : SendExit(s)

SpecSend == Init /\ [][NextSend]_vars

\* The registry under calls of connect for websockets it holds already.
NextConnect ==
  \/ \E c \in Conns, u \in Users : WsOpen(c, u)
  \/ \E c \in Conns : WsClose(c)
  \/ \E c \in Conns, u \in Users : Reconnect(c, u)

SpecConnect == Init /\ [][NextConnect]_vars

\* One call of get_last_n_emails against a provider that answers as it likes.
NextMail ==
  \/ \E n \in 0..MaxN : MailCall(n)
  \/ MailOuter
  \/ MailInner
  \/ \E page \in Pages, nxt \in BOOLEAN, h \in SUBSET Threads : MailList(page, nxt, h)
  \/ \E labels \in LabelSets : MailItem(labels)
  \/ MailListFail
  \/ MailGetFail
  \/ MailPageEnd
  \/ MailAdvance
  \/ MailReturn

SpecMail == Init /\ [][NextMail]_vars

\* get_last_n_emails against the provider of the test suite.  The function
\* runs on one thread that nothing stops, so its next step is always taken.
NextMailLoop ==
  \/ \E n \in 0..MaxN : MailCall(n)
  \/ MailOuter
  \/ MailInner
  \/ \E page \in Pages, nxt \in BOOLEAN : MailListMock(page, nxt)
  \/ \E labels \in LabelSets : MailItem(labels)
  \/ MailPageEnd
  \/ MailAdvance
  \/ MailReturn

SpecMailLoop == Init /\ [][NextMailLoop]_vars /\ WF_vars(NextMailLoop)

\* One worker thread asking for feedback for user 1 while a websocket is
\* opened and closed by either user, answers "wrong" arrive for either user
\* and the notification threads send.
NextWait ==
  \/ RequestCall("w1", 1)
  \/ CheckConn("w1")
  \/ SetWaiting("w1")
  \/ SetFields("w1")
  \/ SpawnRequest("w1")
  \/ GetItem("w1")
  \/ Timeout("w1")
  \/ NotifyTimeout("w1")
  \/ ResetWaiting("w1")
  \/ ResetFields("w1")
  \/ Drain("w1")
  \/ Return("w1")
  \/ \E u \in Users : SubmitCall(u, FALSE)
  \/ SubmitLookup
  \/ SubmitCheck
  \/ SubmitPut
  \/ SubmitSync
  \/ \E u \in Users : WsOpen(1, u)
  \/ WsClose(1)
  \/ \E s \in sends : SendTest(s)
  \/ \E s \in sends : SendLookup(s)
  \/ \E s \in sends : SendNext(s)
  \/ \E s \in sends : SendExit(s)

SpecWait == Init /\ [][NextWait]_vars

\* One request for feedback of user 1 that times out, while websockets are
\* opened, their handlers send the pending request, and the notification
\* threads send.
NextGreet ==
  \/ RequestCall("w1", 1)
  \/ CheckConn("w1")
  \/ SetWaiting("w1")
  \/ SetFields("w1")
  \/ SpawnRequest("w1")
  \/ Timeout("w1")
  \/ NotifyTimeout("w1")
  \/ ResetWaiting("w1")
  \/ ResetFields("w1")
  \/ Drain("w1")
  \/ \E c \in Conns, u \in Users : WsOpenSeen(c, u)
  \/ \E c \in Conns : WsGreet(c)
  \/ \E s \in sends : SendTest(s)
  \/ \E s \in sends : SendLookup(s)
  \/ \E s \in sends : SendNext(s)
  \/ \E s \in sends : SendExit(s)

SpecGreet == Init /\ [][NextGreet]_vars

\* The HTTP requests of the session of user 1, while either user opens
\* websockets and a worker thread asks user 2 for feedback.
NextSession ==
  \/ \E c \in Conns, u \in Users : WsOpenSeen(c, u)
  \/ StatusRequest(1)
  \/ StatusEmail
  \/ StatusSubject
  \/ StatusRecipient
  \/ StatusExtract
  \/ StatusRespond
  \/ \E v \in BOOLEAN : FeedbackRequest(1, v)
  \/ SubmitLookup
  \/ SubmitCheck
  \/ SubmitPut
  \/ SubmitSync
  \/ RequestCall("w1", 2)
  \/ CheckConn("w1")
  \/ SetWaiting("w1")
  \/ SetFields("w1")
  \/ SpawnRequest("w1")
  \/ GetItem("w1")
  \/ ResetWaiting("w1")
  \/ ResetFields("w1")
  \/ Drain("w1")
  \/ Return("w1")

SpecSession == Init /\ [][NextSession]_vars

\* The messages of the clients on their websockets, while one worker thread
\* asks for feedback and waits for the answer.
NextWs ==
  \/ \E a \in Users : RequestCall("w1", a)
  \/ CheckConn("w1")
  \/ SetWaiting("w1")
  \/ SetFields("w1")
  \/ SpawnRequest("w1")
  \/ GetItem("w1")
  \/ ResetWaiting("w1")
  \/ ResetFields("w1")
  \/ Drain("w1")
  \/ Return("w1")
  \/ \E c \in Conns, u \in Users : WsOpen(c, u)
  \/ \E c \in Conns, kind \in {"no_feedback", "not_json"} : WsMalformed(c, kind)
  \/ \E c \in Conns, v \in BOOLEAN : WsFeedback(c, v)
  \/ SubmitLookup
  \/ SubmitCheck
  \/ SubmitPut
  \/ SubmitSync

SpecWs == Init /\ [][NextWs]_vars

\* The /process-emails and /status handlers and the processing threads.
NextTask ==
  \/ \E u \in Users, valid \in BOOLEAN : ProcessEmails(u, valid)
  \/ \E i \in 1..MaxTasks : TaskDraftEmail(i)
  \/ \E i \in 1..MaxTasks : TaskDraftSubject(i)
  \/ \E i \in 1..MaxTasks : TaskDraftRecipient(i)
  \/ \E i \in 1..MaxTasks : TaskDraftResults(i)
  \/ \E i \in 1..MaxTasks, out \in {"returned", "raised"} : TaskEnd(i, out)
  \/ \E u \in Users : StatusCall(u)
  \/ StatusEmail
  \/ StatusSubject
  \/ StatusRecipient
  \/ StatusExtract
  \/ StatusRespond

SpecTask == Init /\ [][NextTask]_vars

\* ------------------------------------------------------------ properties
\* User u is WAITING: a request has set waiting_for_feedback and no reset has
\* cleared it.
AlreadyWaiting(states, u) ==
  u \in DOMAIN states /\ states[u].waiting_for_feedback

\* The connections registered for user u, read from the reverse map.
Registered(u) == { c \in DOMAIN connection_to_user : connection_to_user[c] = u }

\* A step of the event loop inside a provide_feedback call.
SubmitStep == ev'.pc # ev.pc

\* The user the provide_feedback call of this step was made for.
SubmitUser == IF ev.pc = "idle" THEN ev'.arg ELSE ev.arg

\* C1: an answer that provide_feedback accepted while the request was blocked
\* waiting, with no other answer queued, is the answer this request returns.
C1_FastAnswerReturned ==
  \A w \in Workers :
    (wk[w].pc = "done" /\ wk[w].fast # <<>>) => wk[w].ret[1].ok = wk[w].fast[1]

\* C2: when a second answer was accepted before the request consumed the
\* first, the request returns the first answer and, once it has returned,
\* the queue of its user holds nothing.
C2_SecondAnswerDropped ==
  \A w \in Workers :
    (wk[w].pc = "done" /\ wk[w].fast # <<>> /\ wk[w].dup) =>
      /\ wk[w].ret[1].ok = wk[w].fast[1]
      /\ user_feedback_states[wk[w].uid].feedback_queue = <<>>

\* C3: a request never consumes an answer that passed the waiting test of
\* provide_feedback before the request began.
C3_NoStaleAnswer ==
  \A w \in Workers : wk[w].item # <<>> => ~wk[w].item[1].old

\* C4: a provide_feedback call made when the request of its user has already
\* timed out is not accepted: it does not return True (and so neither queues
\* its value nor starts the feedback_received notification).
C4_LateAnswerRejected == ev.late => ev.ret # <<TRUE>>

\* C5: a request made for a user who is already waiting for feedback does not
\* go on to record itself as the pending request of that user.
C5_OverlapFails ==
  \A w \in Workers : wk[w].busy => wk[w].pc \in {"check_conn", "set_waiting", "done"}

\* C6: a request during which no provide_feedback call ran returns
\* (True, "correct").
C6_QuietRequestDefaults ==
  \A w \in Workers :
    (wk[w].pc = "done" /\ wk[w].quiet) => wk[w].ret = <<DefaultOutcome>>

\* C7: a step of a provide_feedback call for a user who is not waiting for
\* feedback changes no feedback state, not the current user id, starts no
\* notification, and does not make the call return True.
C7_IdleSubmitInert ==
  [][(SubmitStep /\ ~AlreadyWaiting(user_feedback_states, SubmitUser)) =>
       /\ user_feedback_states' = user_feedback_states
       /\ current_user_id' = current_user_id
       /\ sends' = sends
       /\ ev'.ret # <<TRUE>>]_vars

\* C8: a step of a provide_feedback call for user u leaves the feedback state
\* of every other user, whose requests are the ones made for that user, as it
\* was.
C8_SubmitIsolated ==
  [][SubmitStep =>
       \A x \in (DOMAIN user_feedback_states) \ {SubmitUser} :
         (\A w \in Workers : wk[w].uid = x => wk[w].ruid = x) =>
           user_feedback_states'[x] = user_feedback_states[x]]_vars

\* C9: a feedback_required or feedback_timeout message of a request made for
\* user u is delivered only to connections registered for u.
C9_PromptOnlyToOwner ==
  \A s \in sends :
    s.type \in {"feedback_required", "feedback_timeout"} =>
      \A i \in 1..Len(s.got) : connection_to_user[s.got[i]] = s.origin

\* C10: a send_to_user call during which no connection of its user came or
\* went has delivered, when it returns, once to each connection registered
\* for the user and to no other connection: nothing when there is none, k
\* deliveries when there are k.
C10_SendExactlyRegistered ==
  \A s \in sends :
    (s.pc = "done" /\ s.clean) =>
      /\ ListElems(s.got) = Registered(s.user)
      /\ Len(s.got) = Cardinality(Registered(s.user))

\* C10: a call to a user with two connections has returned, and another call
\* to a user with none has returned.
C10_Witness ==
  /\ \E s \in sends :
        s.pc = "done" /\ s.clean /\ Cardinality(Registered(s.user)) = 2
  /\ \E s \in sends :
        s.pc = "done" /\ s.clean /\ Registered(s.user) = {}

\* The number of times connection c occurs in the list l.
Occurrences(l, c) == Cardinality({ i \in 1..Len(l) : l[i] = c })

\* C11: a send_to_user call that has returned has delivered exactly once to
\* every connection that stayed registered for its user from the call to the
\* return, whatever was registered or unregistered meanwhile.
C11_ConcurrentSendComplete ==
  \A s \in sends :
    s.pc = "done" =>
      \A c \in Registered(s.user) \ s.touched : Occurrences(s.got, c) = 1

\* C12: no user id is mapped to an empty list of connections.
C12_NoEmptyEntry ==
  \A u \in DOMAIN user_connections : user_connections[u] # <<>>

ThreadIds(l) == [i \in 1..Len(l) |-> l[i].thread_id]

\* C15: the returned list holds at most num_threads threads, no thread id
\* twice, and each returned entry is a whole thread of the accumulator.
C15_UniqueAtMostN ==
  mail.pc = "done" =>
    /\ Len(mail.ret) <= mail.n
    /\ \A i, j \in 1..Len(mail.ret) :
          mail.ret[i].thread_id = mail.ret[j].thread_id => i = j
    /\ \A i \in 1..Len(mail.ret) : mail.ret[i] = mail.threads[i]

\* C15: a call for two threads has returned two, one of them with several
\* messages.
C15_Witness ==
  /\ mail.pc = "done" /\ mail.n = 2 /\ Len(mail.ret) = 2
  /\ \E i \in 1..2 : Len(mail.ret[i].messages) >= 2

\* C16: a list call for a later label combination is made only when fewer
\* than num_threads threads are known and no earlier combination was left
\* with a page announced and not requested.
C16_LazyInOrder ==
  (mail.pc = "list" /\ mail.tier > 1) =>
    (Len(mail.threads) < mail.n /\ ~mail.cut)

\* C17: a call that returns fewer than num_threads threads has tried every
\* label combination and returns, each once and in first-seen order, exactly
\* the threads that have an acceptable message with the provider.
C17_ShortResultComplete ==
  (mail.pc = "done" /\ Len(mail.ret) < mail.n) =>
    /\ mail.tier = Len(include_labels) /\ ~mail.more
    /\ ThreadIds(mail.ret) = mail.seen
    /\ mail.hidden \subseteq ListElems(mail.seen)

C19_CapAndOrder ==
  \A i \in 1..Len(mail.threads) :
    LET m == mail.threads[i].messages IN
      /\ 1 <= Len(m) /\ Len(m) <= MAX_MESSAGES_PER_THREAD
      /\ \A k \in 1..Len(m) : m[k].order = k

\* C19: a call has returned a full thread after a further message of it was
\* dropped.
C19_Witness ==
  /\ mail.pc = "done" /\ mail.capped
  /\ \E i \in 1..Len(mail.ret) :
        Len(mail.ret[i].messages) = MAX_MESSAGES_PER_THREAD

\* C20: a fetched message whose labels meet the exclusion list of the current
\* label combination leaves the threads as they are, and a message that is
\* recorded carries none of the category labels every list excludes.
C20_PostFilterAuthoritative ==
  [][(mail.pc = "item" /\ mail'.pc = "item" /\ mail'.msgs # mail.msgs) =>
       /\ Excluded(mail'.fetched, mail.tier) => mail'.threads = mail.threads
       /\ mail'.threads # mail.threads =>
            mail'.fetched \cap CategoryLabels = {}]_vars

\* C20: a message carrying CATEGORY_SOCIAL has just been fetched by a call
\* that holds threads already.
C20_Witness ==
  /\ mail.pc = "item" /\ "CATEGORY_SOCIAL" \in mail.fetched
  /\ mail.threads # <<>>

\* C21: no message is recorded that carries one of the labels the docstring
\* lists as global exclusions, whatever the label combination.
C21_NoGlobalExclusionKept ==
  [][(mail.pc = "item" /\ mail'.pc = "item" /\ mail'.msgs # mail.msgs) =>
       (mail'.threads # mail.threads =>
          mail'.fetched \cap GlobalExclusions = {})]_vars

\* C23: once a provider call has raised, the call of get_last_n_emails is
\* over: it takes no further step, so it makes no further provider call, and
\* it has returned nothing.
C23_FailurePropagates ==
  mail.failed =>
    /\ mail.pc = "raised"
    /\ mail.ret = <<>>
    /\ ~ENABLED NextMail

\* C23: a provider call has raised while threads were already collected.
C23_Witness ==
  /\ mail.failed /\ mail.threads # <<>>

\* C24: no user has two processing threads that have not ended, and a
\* /process-emails request for a user whose running flag is set is answered
\* already_running and changes neither a task state nor the threads nor the
\* current user.
C24_OneWorkerPerUser ==
  [][/\ \A u \in Users : Cardinality(Active(task'.threads, u)) <= 1
     /\ (task'.asked # task.asked /\ task.states[task'.reply[1].user].running) =>
          /\ task'.reply[1].status = "already_running"
          /\ task'.states = task.states
          /\ task'.threads = task.threads
          /\ current_user_id' = current_user_id]_vars

\* C24: a request was answered already_running while the thread of the user
\* was inside the draft callback.
C24_Witness ==
  /\ task.reply # <<>>
  /\ task.reply[1].status = "already_running"
  /\ \E i \in Active(task.threads, task.reply[1].user) :
        task.threads[i].pc = "recipient"

\* C25: a user all of whose processing threads have ended is not running.
C25_RunningCleared ==
  \A u \in Users :
    (/\ \E i \in 1..Len(task.threads) : task.threads[i].user = u
     /\ Active(task.threads, u) = {}) => ~task.states[u].running

\* C26: a /status request that began after the processing thread of the user
\* had ended by an exception reports the status failed.
C26_FailureReported ==
  (task.resp # <<>> /\ task.resp[1].dead) => task.resp[1].status = "failed"

\* C27: a /status response holds the draft email, subject, recipient and the
\* results of one and the same draft, or of none.
C27_DraftReadAtomic ==
  task.resp # <<>> =>
    LET r == task.resp[1] IN
      /\ r.draft_subject = r.draft_email
      /\ r.draft_recipient = r.draft_email
      /\ r.results = r.draft_email

\* C28: while the user a request was made for has no registered connection,
\* no message of that request is delivered to any connection, and the request
\* returns (True, "correct") and leaves the user not waiting for feedback.
C28_NoConnectionDefault ==
  \A w \in Workers :
    (wk[w].ruid # NoUser /\ Registered(wk[w].ruid) = {}) =>
      /\ \A s \in sends : s.origin = wk[w].ruid => s.got = <<>>
      /\ wk[w].pc = "done" =>
           /\ wk[w].ret = <<DefaultOutcome>>
           /\ ~AlreadyWaiting(user_feedback_states, wk[w].ruid)

\* C29: a malformed message on a websocket is answered with an error reply on
\* that websocket, changes no feedback state, and leaves the websocket open
\* and registered.
C29_MalformedRecovered ==
  [][ws'.count # ws.count =>
       /\ ws'.reply[1].type = "error"
       /\ user_feedback_states' = user_feedback_states
       /\ ws'.reply[1].conn \in DOMAIN connection_to_user'
       /\ ws'.reply[1].conn \notin ws'.dead]_vars

\* A request is blocked in feedback_queue.get().
Waiting == \E w \in Workers : wk[w].pc = "get"

C31_PendingOnlyWhileWaiting ==
  \A u \in DOMAIN user_feedback_states :
    ~user_feedback_states[u].waiting_for_feedback =>
      /\ user_feedback_states[u].current_prompt = None
      /\ user_feedback_states[u].current_decision = None
      /\ user_feedback_states[u].current_context = None

\* A step of get_last_n_emails that is a provider call: a list call, which
\* returns or raises, or the get call of the next message of the page.
ProviderCall ==
  \/ mail.pc = "list" /\ mail' # mail
  \/ /\ mail.pc = "item"
     /\ \/ mail'.pc = "raised"
        \/ mail'.pc = "item" /\ mail'.msgs # mail.msgs

\* C32: every provider call is made while fewer than num_threads threads are
\* known.
C32_NoCallOnceEnough ==
  [][ProviderCall => Len(mail.threads) < mail.n]_vars

\* C32: the last thread wanted was found in the middle of a page that came
\* with a nextPageToken: messages of the page are left, and a page is left.
C32_Witness ==
  /\ mail.pc = "item" /\ mail.n >= 1 /\ Len(mail.threads) = mail.n
  /\ mail.msgs # <<>> /\ mail.next

\* C33: every call of get_last_n_emails returns or raises.
C33_Terminates == (mail.pc # "idle") ~> (mail.pc \in {"done", Raised})

\* C34: in the result of get_last_n_emails no message id is listed twice:
\* the messages of one thread have distinct ids.
C34_NoMessageTwice ==
  mail.pc = "done" =>
    \A i \in 1..Len(mail.ret) :
      \A a, b \in 1..Len(mail.ret[i].messages) :
        a # b => mail.ret[i].messages[a].messageId # mail.ret[i].messages[b].messageId

\* C38: a send_json that fails inside send_to_user leaves no exception with
\* the caller, and when the registry was not changed during the send, every
\* connection of the user on which send_json did not fail got the message.
C38_SendFailureContained ==
  \A s \in sends :
    /\ s.pc \in {"test", "lookup", "iter", "done"}
    /\ (s.pc = "done" /\ s.clean /\ s.user \in DOMAIN user_connections) =>
         /\ ListElems(user_connections[s.user]) \ ListElems(s.err)
              \subseteq ListElems(s.got)
         /\ Len(s.got) + Len(s.err) = Len(user_connections[s.user])

\* C38: a send to a user with two connections has ended; send_json failed on
\* the first connection and the second got the message.
C38_Witness ==
  \E s \in sends :
    /\ s.pc = "done" /\ s.clean /\ s.user \in DOMAIN user_connections
    /\ Len(user_connections[s.user]) = 2
    /\ s.err = <<user_connections[s.user][1]>>
    /\ s.got = <<user_connections[s.user][2]>>

\* C36: a websocket whose handler has ended is in neither mapping of the
\* registry, so that no send_to_user visits it.
C36_EndedHandlerUnregistered ==
  \A c \in ws.dead :
    /\ c \notin DOMAIN connection_to_user
    /\ \A u \in DOMAIN user_connections : c \notin ListElems(user_connections[u])

\* The number of feedback_required messages websocket c was sent: by its own
\* handler, and by the notification thread still running.
PromptsOn(c) ==
  (IF c \in ws.prompted THEN 1 ELSE 0) +
  (IF \E s \in sends : s.type = "feedback_required" /\ c \in ListElems(s.got)
   THEN Occurrences((CHOOSE s \in sends : s.type = "feedback_required"
                                          /\ c \in ListElems(s.got)).got, c)
   ELSE 0)

\* C37: a websocket that was registered while its user was waiting for
\* feedback, and whose handler has passed line 105 while the request is
\* still pending, was sent the feedback_required of the request exactly once.
C37_PendingPromptOnce ==
  \A c \in DOMAIN connection_to_user :
    ( /\ c \in ws.during /\ c \in ws.greeted
      /\ Pending(user_feedback_states, connection_to_user[c])
      /\ wk["w1"].pc \in {"set_fields", "spawn", "get"}
      /\ wk["w1"].uid = connection_to_user[c] ) =>
    PromptsOn(c) = 1

\* C35: the requests of the session of user 1 are served for user 1: the
\* /status response holds the state of user 1, and feedback posted with the
\* session is given to provide_feedback for user 1.
C35_SessionServesOwnUser ==
  /\ ev.pc # "idle" => ev.arg = 1
  /\ task.resp # <<>> => task.resp[1].user = 1

====
